---- MODULE Spec2Model ----
(***************************************************************************)
(* State machine of IsroDataFilterComponent (IsroDataFilterComponent.tsx): *)
(* the component state (four coordinate texts, the product selection map,  *)
(* drawingMode), the UserDrawing collaborator it drives, the WFS requests  *)
(* it has issued and the layer records it has handed to the host catalog.  *)
(*                                                                         *)
(* Texts are TLA+ strings.  Latitudes and longitudes are integers in units *)
(* of 1e-7 degree, so that the rounding of toFixed(6) is visible.          *)
(* Every handler runs to completion on the one UI event loop; none reads   *)
(* this.state after a setState of the same handler, so each handler is one *)
(* step that commits its setState patches in order.                        *)
(***************************************************************************)
EXTENDS Integers, Sequences, FiniteSets, TLC

VARIABLES
    state,        \* this.state of the component
    inDrawMode,   \* userDrawing: a drawing session is open
    closeLoop,    \* userDrawing.closeLoop
    requests,     \* the fetches issued so far, by issue number
    catalog,      \* terria.catalog.userAddedDataGroup: records added, in order
    loadOrder,    \* history: issue number of the request behind each record
    origin,       \* history: where each coordinate field's value comes from
    last          \* history: the handler that ran last and what it did

vars == <<state, inDrawMode, closeLoop, requests, catalog, loadOrder, origin, last>>

\* Bound of the model: number of requests issued in one behaviour.
MaxQueries == 2

-----------------------------------------------------------------------------
(* Texts *)

Digits == "0123456789"

CharAt(s, i) == SubSeq(s, i, i)

Chars(s) == { CharAt(s, i) : i \in 1..Len(s) }

DigitText(d) == CharAt(Digits, d + 1)

RECURSIVE NatToText(_)
NatToText(n) == IF n < 10 THEN DigitText(n)
                ELSE NatToText(n \div 10) \o DigitText(n % 10)

\* The fraction digits of toFixed(6): n < 10^6 written with leading zeros.
Pad6(n) == LET s == NatToText(n) IN SubSeq("000000", 1, 6 - Len(s)) \o s

\* Number.prototype.toFixed(6) of v * 1e-7: the sign is taken first ("-" for
\* every v < 0, also when the digits round to zero), then the integer n with
\* n / 10^6 closest to |v| * 1e-7, the larger n on a tie.
ToFixed6(v) ==
    LET a == IF v < 0 THEN -v ELSE v
        n == (a + 5) \div 10
    IN  (IF v < 0 THEN "-" ELSE "")
            \o NatToText(n \div 1000000) \o "." \o Pad6(n % 1000000)

\* Math.max(...xs) and Math.min(...xs) of a non-empty list.
RECURSIVE MathMax(_)
MathMax(xs) == IF Len(xs) = 1 THEN xs[1]
               ELSE LET m == MathMax(Tail(xs)) IN IF xs[1] > m THEN xs[1] ELSE m

RECURSIVE MathMin(_)
MathMin(xs) == IF Len(xs) = 1 THEN xs[1]
               ELSE LET m == MathMin(Tail(xs)) IN IF xs[1] < m THEN xs[1] ELSE m

\* encodeURIComponent: the unreserved characters stay, every other character
\* becomes the percent code of its UTF-8 byte.
Unreserved ==
    "ABCDEFGHIJKLMNOPQRSTUVWXYZabcdefghijklmnopqrstuvwxyz0123456789-_.!~*'()"

PercentCode(c) ==
    CASE c = " " -> "%20"
      [] c = "," -> "%2C"
      [] c = "+" -> "%2B"
      [] c = ":" -> "%3A"
      [] c = "/" -> "%2F"
      [] c = "=" -> "%3D"
      [] c = "&" -> "%26"
      [] c = "?" -> "%3F"
      [] c = "%" -> "%25"

UnreservedChars == Chars(Unreserved)

EncodeChar(c) == IF c \in UnreservedChars THEN c ELSE PercentCode(c)

\* Character by character; the text is split in halves to keep the
\* evaluation shallow.
RECURSIVE EncodeURIComponent(_)
EncodeURIComponent(s) ==
    IF Len(s) = 0 THEN ""
    ELSE IF Len(s) = 1 THEN EncodeChar(s)
    ELSE LET h == Len(s) \div 2
         IN  EncodeURIComponent(SubSeq(s, 1, h))
                 \o EncodeURIComponent(SubSeq(s, h + 1, Len(s)))

-----------------------------------------------------------------------------
(* The component state *)

FieldNames == {"top", "bottom", "left", "right"}

\* The checkboxes of render().
ProductNames == {"tmc1", "tmc2", "ohrc"}

\* A slip in the toggle: the key is removed and added again, so it goes last.
PutProductLast(products, name, checked) ==
    LET IsOther(entry) == entry.id # name
    IN  Append(SelectSeq(products, IsOther), [id |-> name, selected |-> checked])

\* A variant that keeps only the selected ids: unchecking deletes the key.
PutProductDropsUnchecked(products, name, checked) ==
    LET IsOther(entry) == entry.id # name
    IN  IF checked /\ \E i \in 1..Len(products) : products[i].id = name
        THEN [i \in 1..Len(products) |->
                IF products[i].id = name THEN [id |-> name, selected |-> TRUE]
                ELSE products[i]]
        ELSE IF checked THEN Append(products, [id |-> name, selected |-> TRUE])
        ELSE SelectSeq(products, IsOther)

\* A variant with the behaviour of radio buttons: the other flags go off.
PutProductExclusive(products, name, checked) ==
    [i \in 1..Len(products) |->
        [id |-> products[i].id,
         selected |-> IF products[i].id = name THEN checked ELSE FALSE]]

\* Object spread {...prev, [name]: checked} on an insertion-ordered map, kept
\* as a list of entries: an existing key keeps its place, a new key goes last.
PutProduct(products, name, checked) ==
    IF \E i \in 1..Len(products) : products[i].id = name
    THEN [i \in 1..Len(products) |->
            IF products[i].id = name THEN [id |-> name, selected |-> checked]
            ELSE products[i]]
    ELSE Append(products, [id |-> name, selected |-> checked])

\* this.setState(patch): the keys of the patch overwrite, the others stay.
SetState(s, patch) ==
    [k \in DOMAIN s |-> IF k \in DOMAIN patch THEN patch[k] ELSE s[k]]

InitialState ==
    [top |-> "", bottom |-> "", left |-> "", right |-> "",
     selectedProducts |-> << [id |-> "tmc1", selected |-> TRUE],
                             [id |-> "tmc2", selected |-> TRUE],
                             [id |-> "ohrc", selected |-> TRUE] >>,
     drawingMode |-> FALSE]

\* What a handler did, for the history variable last.
Quiet == [op |-> "init", alert |-> "", url |-> "", applied |-> FALSE,
          ended |-> FALSE, loaded |-> 0, logged |-> FALSE]

Init ==
    /\ state = InitialState
    /\ inDrawMode = FALSE
    /\ closeLoop = FALSE
    /\ requests = <<>>
    /\ catalog = <<>>
    /\ loadOrder = <<>>
    /\ origin = [f \in FieldNames |-> "user"]
    /\ last = Quiet

-----------------------------------------------------------------------------
(* The UserDrawing collaborator (Models/UserDrawing, outside this file):     *)
(* enterDrawMode opens a drawing session; endDrawing closes it, forgets the  *)
(* loop and calls onCleanUp.  While a session is open it calls onPointClicked*)
(* and onPointMoved with the current point entities.                         *)

\* An entity whose position.getValue(...) is undefined.
NoPosition == [defined |-> FALSE, latitude |-> 0, longitude |-> 0]

\* An entity at lat * 1e-7 degrees north, lon * 1e-7 degrees east.
Carto(lat, lon) == [defined |-> TRUE, latitude |-> lat, longitude |-> lon]


P1 == Carto(488500004, 23500005)      \* 48.8500004 N, 2.3500005 E
P2 == Carto(-4, -23500000)            \* 0.0000004 S, 2.35 W
P3 == Carto(480000000, 20000000)      \* 48 N, 2 E

A1 == Carto(100000000, 100000000)     \* 10 N, 10 E
A2 == Carto(100000000, 200000000)     \* 10 N, 20 E
A3 == Carto(200000000, 200000000)     \* 20 N, 20 E
A4 == Carto(200000000, 100000000)     \* 20 N, 10 E

\* The point entities a callback can carry.
PointSets ==
    { <<>>,
      << A1, A2 >>,
      << A1, A2, A3, A4 >>,
      << P1, P2, P3 >>,
      << P3, P1, P2 >>,
      << NoPosition, P2, P3, P1 >>,
      << NoPosition, NoPosition, NoPosition >> }

-----------------------------------------------------------------------------
(* The handlers, as functions of what they read *)

\* onDrawingCleanUp: this.setState({ drawingMode: false }).
CleanUpPatch == [drawingMode |-> FALSE]

HasPosition(entity) == entity.defined

\* A slip in the guard: two points are taken for an area.
DrawingReadyTwoPoints(loopClosed, pointEntities) ==
    loopClosed /\ Len(pointEntities) >= 2

\* The guard of onDrawingUpdated.
DrawingReady(loopClosed, pointEntities) ==
    loopClosed /\ Len(pointEntities) >= 3

\* A slip in the patch: top and bottom take each other's value.
BoxPatchSwapped(lats, lons) ==
    [top |-> ToFixed6(MathMin(lats)),
     bottom |-> ToFixed6(MathMax(lats)),
     left |-> ToFixed6(MathMin(lons)),
     right |-> ToFixed6(MathMax(lons)),
     drawingMode |-> FALSE]

\* A slip in the patch: right is not written.
BoxPatchWithoutRight(lats, lons) ==
    [top |-> ToFixed6(MathMax(lats)),
     bottom |-> ToFixed6(MathMin(lats)),
     left |-> ToFixed6(MathMin(lons)),
     drawingMode |-> FALSE]

\* The patch of onDrawingUpdated's setState.
BoxPatch(lats, lons) ==
    [top |-> ToFixed6(MathMax(lats)),
     bottom |-> ToFixed6(MathMin(lats)),
     left |-> ToFixed6(MathMin(lons)),
     right |-> ToFixed6(MathMax(lons)),
     drawingMode |-> FALSE]

\* A slip in the handler: endDrawing is not called after the box is applied.
DrawingUpdateNoEnd(loopClosed, pointEntities) ==
    LET positioned == SelectSeq(pointEntities, HasPosition)
        lats == [i \in 1..Len(positioned) |-> positioned[i].latitude]
        lons == [i \in 1..Len(positioned) |-> positioned[i].longitude]
    IN  IF DrawingReady(loopClosed, pointEntities) /\ Len(lats) # 0 /\ Len(lons) # 0
        THEN [patch |-> BoxPatch(lats, lons), applied |-> TRUE, endDrawing |-> FALSE]
        ELSE [patch |-> <<>>, applied |-> FALSE, endDrawing |-> FALSE]

\* onDrawingUpdated: the setState patch it applies (<<>> for none) and
\* whether it calls userDrawing.endDrawing().
DrawingUpdate(loopClosed, pointEntities) ==
    LET positioned == SelectSeq(pointEntities, HasPosition)
        lats == [i \in 1..Len(positioned) |-> positioned[i].latitude]
        lons == [i \in 1..Len(positioned) |-> positioned[i].longitude]
    IN  IF DrawingReady(loopClosed, pointEntities) /\ Len(lats) # 0 /\ Len(lons) # 0
        THEN [patch |-> BoxPatch(lats, lons), applied |-> TRUE, endDrawing |-> TRUE]
        ELSE [patch |-> <<>>, applied |-> FALSE, endDrawing |-> FALSE]

\* DrawingUpdate over the inputs of the model, evaluated once.
DrawingUpdates ==
    [loopClosed \in BOOLEAN, pointEntities \in PointSets |->
        DrawingUpdate(loopClosed, pointEntities)]

AoiAlert == "Please provide all coordinate values for the area of interest."

ProductAlert == "Please select at least one data product."

\* A slip in the validation: the last field is not looked at.
AoiIncompleteSkipsRight(s) == s.top = "" \/ s.bottom = "" \/ s.left = ""

\* A variant that also refuses a field that holds a negative number.
AoiIncompleteOrNegative(s) ==
    \E f \in FieldNames : s[f] = "" \/ CharAt(s[f], 1) = "-"

\* !top || !bottom || !left || !right: the empty string is the falsy text.
AoiIncomplete(s) == s.top = "" \/ s.bottom = "" \/ s.left = "" \/ s.right = ""

\* A slip in the ring: the closing vertex is left out.
WktPolygonOpen(s) ==
    "POLYGON((" \o s.left \o " " \o s.bottom \o ", "
                \o s.right \o " " \o s.bottom \o ", "
                \o s.right \o " " \o s.top \o ", "
                \o s.left \o " " \o s.top \o "))"

WktPolygon(s) ==
    "POLYGON((" \o s.left \o " " \o s.bottom \o ", "
                \o s.right \o " " \o s.bottom \o ", "
                \o s.right \o " " \o s.top \o ", "
                \o s.left \o " " \o s.top \o ", "
                \o s.left \o " " \o s.bottom \o "))"

\* Object.keys(selectedProducts).filter(key => selectedProducts[key]).
IsSelected(entry) == entry.selected

\* A slip in the selection: the flags are not looked at.
SelectedWorkspacesAllKeys(products) ==
    [i \in 1..Len(products) |-> products[i].id]

SelectedWorkspaces(products) ==
    LET chosen == SelectSeq(products, IsSelected)
    IN  [i \in 1..Len(chosen) |-> chosen[i].id]

RECURSIVE Join(_, _)
Join(texts, sep) ==
    IF Len(texts) = 0 THEN ""
    ELSE IF Len(texts) = 1 THEN texts[1]
    ELSE texts[1] \o sep \o Join(Tail(texts), sep)

TypeNames(workspaces) ==
    Join([i \in 1..Len(workspaces) |-> workspaces[i] \o ":datapoints"], ",")

GeoServerUrl == "http://your-geoserver-url/geoserver/wfs"

CqlFilter(s) == "INTERSECTS(geom, " \o WktPolygon(s) \o ")"

\* A variant that numbers the requests in the URL.
WfsUrlNumbered(s) ==
    GeoServerUrl \o "?service=WFS&version=1.1.0&request=GetFeature&typeName="
        \o TypeNames(SelectedWorkspaces(s.selectedProducts))
        \o "&cql_filter=" \o EncodeURIComponent(CqlFilter(s))
        \o "&outputFormat=application/json"
        \o "&n=" \o NatToText(Len(requests))

WfsUrl(s) ==
    GeoServerUrl \o "?service=WFS&version=1.1.0&request=GetFeature&typeName="
        \o TypeNames(SelectedWorkspaces(s.selectedProducts))
        \o "&cql_filter=" \o EncodeURIComponent(CqlFilter(s))
        \o "&outputFormat=application/json"

\* queryGeoServer up to the fetch: the alert it raises ("" for none) and the
\* URL it fetches ("" for none).
QueryOutcome(s) ==
    IF AoiIncomplete(s) THEN [alert |-> AoiAlert, url |-> ""]
    ELSE IF Len(SelectedWorkspaces(s.selectedProducts)) = 0
         THEN [alert |-> ProductAlert, url |-> ""]
         ELSE [alert |-> "", url |-> WfsUrl(s)]

-----------------------------------------------------------------------------
(* The remote feature service and the host catalog *)

FeatureCollectionText == "{\"type\":\"FeatureCollection\",\"features\":[]}"

ErrorJsonText == "{\"error\":\"internal\"}"

ServiceExceptionText == "<ServiceExceptionReport/>"

\* What fetch can resolve with: a response, successful or not, whose body is
\* JSON text or not.
Responses ==
    { [ok |-> TRUE, body |-> FeatureCollectionText],
      [ok |-> TRUE, body |-> ServiceExceptionText],
      [ok |-> FALSE, body |-> ServiceExceptionText],
      [ok |-> FALSE, body |-> ErrorJsonText] }

NoResponse == [ok |-> FALSE, body |-> ""]

\* response.json(): the parsed document, or a rejection for a body that is
\* not JSON text.  The status of the response is not read.
ResponseJson(response) ==
    CASE response.body = FeatureCollectionText ->
            [parsed |-> TRUE,
             value |-> [type |-> "FeatureCollection", features |-> <<>>]]
      [] response.body = ErrorJsonText ->
            [parsed |-> TRUE, value |-> [error |-> "internal"]]
      [] OTHER -> [parsed |-> FALSE, value |-> <<>>]

\* A slip in the fetch: the requests still in flight are dropped for the new one.
IssueFetchCancelsEarlier(reqs) ==
    Append([i \in 1..Len(reqs) |-> [phase |-> "done", response |-> NoResponse]],
           [phase |-> "fetch", response |-> NoResponse])

\* fetch(wfsUrl): one more request in flight; the earlier ones stay as they are.
IssueFetch(reqs) == Append(reqs, [phase |-> "fetch", response |-> NoResponse])

\* A variant that labels the record with the area of interest of the store.
DataItemNamedByArea(geoJsonData) ==
    [name |-> "Filtered Data " \o state.top, type |-> "geojson",
     data |-> geoJsonData, isEnabled |-> TRUE]

\* addDataToWorkbench: the record handed to userAddedDataGroup.addModel.
DataItem(geoJsonData) ==
    [name |-> "Filtered Data", type |-> "geojson", data |-> geoJsonData,
     isEnabled |-> TRUE]

-----------------------------------------------------------------------------
(* The steps *)

\* The values typed into the four inputs.
FieldEdits ==
    { <<"top", "48.9">>, <<"bottom", "48.8">>, <<"left", "2.33">>,
      <<"right", "2.35">> } \cup { <<f, "">> : f \in FieldNames }

\* History: after a box is applied, a coordinate field it wrote is "box" and a
\* field it left alone is "stale"; a field the user typed last is "user".
OriginAfterBox(patch) ==
    [f \in FieldNames |-> IF f \in DOMAIN patch THEN "box" ELSE "stale"]

\* A variant that abandons the requests in flight when an input is edited.
HandleInputChangeAborts(name, value) ==
    /\ state' = SetState(state, name :> value)
    /\ origin' = [origin EXCEPT ![name] = "user"]
    /\ last' = [Quiet EXCEPT !.op = "handleInputChange"]
    /\ requests' = [i \in 1..Len(requests) |->
                       [phase |-> "done", response |-> NoResponse]]
    /\ UNCHANGED <<inDrawMode, closeLoop, catalog, loadOrder>>

\* handleInputChange: this.setState({ [name]: value }).
HandleInputChange(name, value) ==
    /\ state' = SetState(state, name :> value)
    /\ origin' = [origin EXCEPT ![name] = "user"]
    /\ last' = [Quiet EXCEPT !.op = "handleInputChange"]
    /\ UNCHANGED <<inDrawMode, closeLoop, requests, catalog, loadOrder>>

HandleProductChange(name, checked) ==
    /\ state' = SetState(state,
          [selectedProducts |-> PutProduct(state.selectedProducts, name, checked)])
    /\ last' = [Quiet EXCEPT !.op = "handleProductChange"]
    /\ UNCHANGED <<inDrawMode, closeLoop, requests, catalog, loadOrder, origin>>

\* activateDrawing: setState({ drawingMode: true }); enterDrawMode().
ActivateDrawing ==
    /\ state' = SetState(state, [drawingMode |-> TRUE])
    /\ inDrawMode' = TRUE
    /\ last' = [Quiet EXCEPT !.op = "activateDrawing"]
    /\ UNCHANGED <<closeLoop, requests, catalog, loadOrder, origin>>

\* onDrawingUpdated(pointEntities), called with userDrawing.closeLoop = loopClosed.
OnDrawingUpdated(loopClosed, pointEntities, callback) ==
    \E u \in { DrawingUpdates[loopClosed, pointEntities] } :
        /\ last' = [Quiet EXCEPT !.op = callback, !.applied = u.applied,
                                 !.ended = u.endDrawing]
        /\ inDrawMode' = IF u.endDrawing THEN FALSE ELSE inDrawMode
        /\ closeLoop' = IF u.endDrawing THEN FALSE ELSE loopClosed
        /\ origin' = IF u.applied THEN OriginAfterBox(u.patch) ELSE origin
        /\ state' = IF u.endDrawing
                    THEN SetState(SetState(state, u.patch), CleanUpPatch)
                    ELSE SetState(state, u.patch)
        /\ UNCHANGED <<requests, catalog, loadOrder>>

\* The user clicks on the map: a new point, or the click that closes the loop.
OnPointClicked(pointEntities, closing) ==
    /\ inDrawMode
    /\ OnDrawingUpdated(closeLoop \/ closing, pointEntities, "onPointClicked")

\* The user drags a point.
OnPointMoved(pointEntities) ==
    /\ inDrawMode
    /\ OnDrawingUpdated(closeLoop, pointEntities, "onPointMoved")

\* The collaborator cleans up a session by itself (the user dismisses it).
OnDrawingCleanUp ==
    /\ inDrawMode
    /\ state' = SetState(state, CleanUpPatch)
    /\ inDrawMode' = FALSE
    /\ closeLoop' = FALSE
    /\ last' = [Quiet EXCEPT !.op = "onDrawingCleanUp"]
    /\ UNCHANGED <<requests, catalog, loadOrder, origin>>

\* A variant that blanks the four inputs when it raises an alert.
QueryGeoServerClearsOnAlert ==
    \E q \in { QueryOutcome(state) } :
        /\ q.url # "" => Len(requests) < MaxQueries
        /\ requests' = IF q.url # "" THEN IssueFetch(requests) ELSE requests
        /\ last' = [Quiet EXCEPT !.op = "queryGeoServer", !.alert = q.alert,
                                 !.url = q.url]
        /\ state' = IF q.alert # ""
                    THEN SetState(state, [f \in FieldNames |-> ""])
                    ELSE state
        /\ UNCHANGED <<inDrawMode, closeLoop, catalog, loadOrder, origin>>

\* queryGeoServer: an alert and nothing else, or one fetch of the URL.
QueryGeoServer ==
    \E q \in { QueryOutcome(state) } :
        /\ q.url # "" => Len(requests) < MaxQueries
        /\ requests' = IF q.url # "" THEN IssueFetch(requests) ELSE requests
        /\ last' = [Quiet EXCEPT !.op = "queryGeoServer", !.alert = q.alert,
                                 !.url = q.url]
        /\ UNCHANGED <<state, inDrawMode, closeLoop, catalog, loadOrder, origin>>

\* fetch resolves with a response: .then(response => response.json()) starts.
FetchFulfilled(i, response) ==
    /\ requests[i].phase = "fetch"
    /\ requests' = [requests EXCEPT ![i] = [phase |-> "json", response |-> response]]
    /\ last' = [Quiet EXCEPT !.op = "fetchFulfilled"]
    /\ UNCHANGED <<state, inDrawMode, closeLoop, catalog, loadOrder, origin>>

\* fetch rejects (transport failure): .catch logs it.
FetchRejected(i) ==
    /\ requests[i].phase = "fetch"
    /\ requests' = [requests EXCEPT ![i] = [phase |-> "done", response |-> NoResponse]]
    /\ last' = [Quiet EXCEPT !.op = "fetchRejected", !.logged = TRUE]
    /\ UNCHANGED <<state, inDrawMode, closeLoop, catalog, loadOrder, origin>>

\* response.json() settles: addDataToWorkbench on a document, .catch otherwise.
JsonSettled(i) ==
    \E r \in { ResponseJson(requests[i].response) } :
        /\ requests[i].phase = "json"
        /\ requests' = [requests EXCEPT ![i] = [phase |-> "done", response |-> NoResponse]]
        /\ catalog' = IF r.parsed THEN Append(catalog, DataItem(r.value)) ELSE catalog
        /\ loadOrder' = IF r.parsed THEN Append(loadOrder, i) ELSE loadOrder
        /\ last' = [Quiet EXCEPT !.op = "jsonSettled",
                                 !.loaded = IF r.parsed THEN i ELSE 0,
                                 !.logged = ~r.parsed]
        /\ UNCHANGED <<state, inDrawMode, closeLoop, origin>>

\* activate(): enterDrawMode(); super.activate().
Activate ==
    /\ inDrawMode' = TRUE
    /\ last' = [Quiet EXCEPT !.op = "activate"]
    /\ UNCHANGED <<state, closeLoop, requests, catalog, loadOrder, origin>>

\* deactivate(): endDrawing(), which calls onCleanUp; super.deactivate().
Deactivate ==
    /\ state' = SetState(state, CleanUpPatch)
    /\ inDrawMode' = FALSE
    /\ closeLoop' = FALSE
    /\ last' = [Quiet EXCEPT !.op = "deactivate", !.ended = TRUE]
    /\ UNCHANGED <<requests, catalog, loadOrder, origin>>

\* The steps, by the part of the program they drive.
Edits == \E e \in FieldEdits : HandleInputChange(e[1], e[2])

Toggles ==
    \E name \in ProductNames, checked \in BOOLEAN : HandleProductChange(name, checked)

Drawing ==
    \/ ActivateDrawing
    \/ \E pts \in PointSets, closing \in BOOLEAN : OnPointClicked(pts, closing)
    \/ \E pts \in PointSets : OnPointMoved(pts)
    \/ OnDrawingCleanUp
    \/ Activate
    \/ Deactivate

Completions ==
    \/ \E i \in 1..Len(requests), response \in Responses : FetchFulfilled(i, response)
    \/ \E i \in 1..Len(requests) : FetchRejected(i)
    \/ \E i \in 1..Len(requests) : JsonSettled(i)

Next == Edits \/ Toggles \/ Drawing \/ QueryGeoServer \/ Completions

\* The whole program.  The edits, the drawing sessions and the requests do
\* not read each other's state, so the properties below are checked under the
\* three specifications that follow, each of which runs two of these parts
\* against each other and leaves the third as constructed.
Spec == Init /\ [][Next]_vars

\* Building queries: the inputs and checkboxes are edited and queries are
\* triggered; no drawing session is opened and no response arrives.
NextBuild == Edits \/ Toggles \/ QueryGeoServer

SpecBuild == Init /\ [][NextBuild]_vars

\* Executing queries: the inputs are edited, queries are triggered and their
\* requests complete in any order; the checkboxes stay as constructed.
NextFetch == Edits \/ QueryGeoServer \/ Completions

SpecFetch == Init /\ [][NextFetch]_vars

\* Failing queries: the inputs and the checkboxes are edited, queries are
\* triggered, and every request fails: its fetch rejects, or resolves with a
\* response that is not a success, whether its body is JSON text or not.
Failures ==
    \/ \E i \in 1..Len(requests) : FetchRejected(i)
    \/ \E i \in 1..Len(requests) :
          \E response \in { r \in Responses : ~r.ok } : FetchFulfilled(i, response)
    \/ \E i \in 1..Len(requests) : JsonSettled(i)

NextFailure == Edits \/ Toggles \/ QueryGeoServer \/ Failures

SpecFailure == Init /\ [][NextFailure]_vars

\* Building queries from values no map holds: as SpecBuild, and the user also
\* types a latitude below -90 into top and a longitude below -180 into right,
\* which lie under the bottom and to the left of the left the user types.
OutOfRangeEdits == { <<"top", "-91">>, <<"right", "-181">> }

NextRange ==
    \/ NextBuild
    \/ \E e \in OutOfRangeEdits : HandleInputChange(e[1], e[2])

SpecRange == Init /\ [][NextRange]_vars

\* Every way to fill the store: the inputs and the checkboxes are edited, a
\* box is drawn on the map, and queries are triggered; no response arrives.
Sketch ==
    \/ ActivateDrawing
    \/ \E closing \in BOOLEAN : OnPointClicked(<< A1, A2, A3, A4 >>, closing)

NextFill == Edits \/ Toggles \/ Sketch \/ QueryGeoServer

SpecFill == Init /\ [][NextFill]_vars

\* Requests in flight: a box drawn on the map fills the fields, and while
\* queries are outstanding the top input is retyped or blanked, the checkboxes
\* are toggled and a box is drawn again; every request is answered with the
\* empty feature collection.
Retype == \E value \in {"48.9", ""} : HandleInputChange("top", value)

Arrivals ==
    \/ \E i \in 1..Len(requests) :
          FetchFulfilled(i, [ok |-> TRUE, body |-> FeatureCollectionText])
    \/ \E i \in 1..Len(requests) : JsonSettled(i)

NextFlight == Retype \/ Toggles \/ Sketch \/ QueryGeoServer \/ Arrivals

SpecFlight == Init /\ [][NextFlight]_vars

\* Drawing the area of interest: drawing sessions, manual edits and query
\* triggers interleave; the checkboxes stay as constructed and no response
\* arrives.
NextDrawing == Edits \/ Drawing \/ QueryGeoServer

SpecDrawing == Init /\ [][NextDrawing]_vars

-----------------------------------------------------------------------------
(* Reading a request URL *)

\* The places where sub occurs in s.
Occurrences(s, sub) ==
    { i \in 1..(Len(s) - Len(sub) + 1) : SubSeq(s, i, i + Len(sub) - 1) = sub }

First(S) == CHOOSE i \in S : \A j \in S : i <= j

\* The value of the query parameter name in url: the text after "name=" up
\* to the next "&" or the end of the url.
UrlParam(url, name) ==
    LET starts == Occurrences(url, "?" \o name \o "=") \cup Occurrences(url, "&" \o name \o "=")
        from == First(starts) + Len(name) + 2
        rest == SubSeq(url, from, Len(url))
        stops == Occurrences(rest, "&")
    IN  IF stops = {} THEN rest ELSE SubSeq(rest, 1, First(stops) - 1)

Issued == last.op = "queryGeoServer" /\ last.url # ""

Flag(products, id) ==
    \E i \in 1..Len(products) : products[i].id = id /\ products[i].selected

SomeFieldEmpty(s) == \E f \in FieldNames : s[f] = ""

-----------------------------------------------------------------------------
(* Claims *)

\* C1: whenever queryGeoServer runs in a state where one of top, bottom, left,
\* right is the empty string, it raises the "area of interest" alert and
\* issues no request, whatever the product selection is.
C1_AoiIncompleteNoRequest ==
    [][ (QueryGeoServer /\ SomeFieldEmpty(state))
            => /\ last'.alert = AoiAlert
               /\ last'.url = ""
               /\ requests' = requests ]_vars

\* C1 happens: a query was refused for its empty bottom field while no
\* product was selected either.
C1_Witness ==
    /\ last.op = "queryGeoServer"
    /\ last.alert = AoiAlert
    /\ state.bottom = "" /\ state.top # "" /\ state.left # "" /\ state.right # ""
    /\ \A id \in ProductNames : ~Flag(state.selectedProducts, id)

\* C2: whenever queryGeoServer runs with the four fields non-empty and no
\* product flag true, it raises the "data product" alert and issues no request.
C2_NoProductNoRequest ==
    [][ (/\ QueryGeoServer
         /\ ~SomeFieldEmpty(state)
         /\ \A id \in ProductNames : ~Flag(state.selectedProducts, id))
            => /\ last'.alert = ProductAlert
               /\ last'.url = ""
               /\ requests' = requests ]_vars

\* C2 happens: a query with a complete area of interest was refused for its
\* empty product selection.
C2_Witness ==
    /\ last.op = "queryGeoServer"
    /\ last.alert = ProductAlert
    /\ ~SomeFieldEmpty(state)
    /\ \A id \in ProductNames : ~Flag(state.selectedProducts, id)

\* The entries the claim expects in typeName: the built-in ids in the order
\* tmc1, tmc2, ohrc, those whose flag is true, each with ":datapoints".
ExpectedTypeName(products) ==
    LET Entry(id) == IF Flag(products, id) THEN << id \o ":datapoints" >> ELSE << >>
    IN  Join(Entry("tmc1") \o Entry("tmc2") \o Entry("ohrc"), ",")

\* C3: after any sequence of product toggles, the typeName parameter of an
\* issued query is the list of "<id>:datapoints" of exactly the ids whose flag
\* is true, in the order tmc1, tmc2, ohrc, joined by ",".
C3_TypeNameListsSelected ==
    Issued => UrlParam(last.url, "typeName") = ExpectedTypeName(state.selectedProducts)

\* C3 happens: with tmc2 toggled off the query names tmc1 and ohrc.
C3_Witness ==
    /\ Issued
    /\ Flag(state.selectedProducts, "tmc1")
    /\ ~Flag(state.selectedProducts, "tmc2")
    /\ Flag(state.selectedProducts, "ohrc")
    /\ UrlParam(last.url, "typeName") = "tmc1:datapoints,ohrc:datapoints"

\* The ring the claim expects: five vertices, each "lon lat".
ExpectedVertices(s) ==
    << <<s.left, s.bottom>>, <<s.right, s.bottom>>, <<s.right, s.top>>,
       <<s.left, s.top>>, <<s.left, s.bottom>> >>

ExpectedRing(s) ==
    LET v == ExpectedVertices(s)
    IN  Join([i \in 1..Len(v) |-> v[i][1] \o " " \o v[i][2]], ", ")

\* C4: the polygon of every issued query is the ring (left,bottom),
\* (right,bottom), (right,top), (left,top), (left,bottom) of the current field
\* texts, each vertex written "lon lat", inside INTERSECTS(geom, POLYGON((..))).
C4_RingIsClosedRectangle ==
    Issued =>
        UrlParam(last.url, "cql_filter") =
            EncodeURIComponent("INTERSECTS(geom, POLYGON((" \o ExpectedRing(state) \o ")))")

\* C4 happens: the query of the fields 48.9, 48.8, 2.33, 2.35.
C4_Witness ==
    /\ Issued
    /\ state.top = "48.9" /\ state.bottom = "48.8"
    /\ state.left = "2.33" /\ state.right = "2.35"
    /\ ExpectedRing(state) = "2.33 48.8, 2.35 48.8, 2.35 48.9, 2.33 48.9, 2.33 48.8"
    /\ Cardinality(Occurrences(last.url, "2.33%2048.8")) > 0

-----------------------------------------------------------------------------
(* Reading a coordinate text and a drawing update *)

DigitValue(c) == CHOOSE d \in 0..9 : DigitText(d) = c

RECURSIVE DigitsValue(_)
DigitsValue(s) ==
    IF Len(s) = 0 THEN 0
    ELSE DigitsValue(SubSeq(s, 1, Len(s) - 1)) * 10 + DigitValue(CharAt(s, Len(s)))

\* The number a decimal text stands for, in units of 1e-7.
TextValue(text) ==
    LET neg == CharAt(text, 1) = "-"
        body == IF neg THEN SubSeq(text, 2, Len(text)) ELSE text
        dots == Occurrences(body, ".")
        whole == IF dots = {} THEN body ELSE SubSeq(body, 1, First(dots) - 1)
        frac == IF dots = {} THEN "" ELSE SubSeq(body, First(dots) + 1, Len(body))
        mag == DigitsValue(whole) * 10000000 + DigitsValue(SubSeq(frac \o "0000000", 1, 7))
    IN  IF neg THEN -mag ELSE mag

Abs(v) == IF v < 0 THEN -v ELSE v

\* v rounded to 6 decimals: the multiple of 1e-6 nearest to v, the one
\* farther from zero on a tie.
Rounded6(v) ==
    CHOOSE r \in (v - 5)..(v + 5) :
        /\ r % 10 = 0
        /\ Abs(v - r) < 5 \/ (Abs(v - r) = 5 /\ Abs(r) > Abs(v))

Positioned(pts) == { i \in 1..Len(pts) : pts[i].defined }

Latitudes(pts) == { pts[i].latitude : i \in Positioned(pts) }

Longitudes(pts) == { pts[i].longitude : i \in Positioned(pts) }

Greatest(S) == CHOOSE x \in S : \A y \in S : y <= x

Least(S) == CHOOSE x \in S : \A y \in S : x <= y

\* The extent of the positioned points of each point set of the model.
Extent ==
    [pts \in { p \in PointSets : Positioned(p) # {} } |->
        [top |-> Greatest(Latitudes(pts)), bottom |-> Least(Latitudes(pts)),
         left |-> Least(Longitudes(pts)), right |-> Greatest(Longitudes(pts))]]

RoundedExtent ==
    [pts \in DOMAIN Extent |-> [f \in FieldNames |-> Rounded6(Extent[pts][f])]]

\* The numbers the four coordinate texts of s stand for.
Box(s) == [f \in FieldNames |-> TextValue(s[f])]

\* This step is a point-changed callback carrying pts, with the loop closed
\* or not (loopClosed) when the callback runs.
CallbackWith(pts, loopClosed) ==
    \/ /\ last'.op = "onPointMoved"
       /\ loopClosed = closeLoop
       /\ OnPointMoved(pts)
    \/ /\ last'.op = "onPointClicked"
       /\ \E closing \in BOOLEAN :
             loopClosed = (closeLoop \/ closing) /\ OnPointClicked(pts, closing)

Callback == last.op \in {"onPointClicked", "onPointMoved"}

\* C5 as stated: the box written by a drawing update of at least 3 points is
\* the max/min latitude and min/max longitude of the points themselves.
C5_BoxIsExactExtent ==
    [][ last'.applied =>
          \E box \in { Box(state') } :
              \A pts \in PointSets, loopClosed \in BOOLEAN :
                  (Len(pts) >= 3 /\ CallbackWith(pts, loopClosed))
                      => box = Extent[pts] ]_vars

\* C5, amended: the box written by a drawing update of at least 3 points is
\* the max latitude, min latitude, min longitude and max longitude of the
\* points that have a position, each rounded to 6 decimals; so top >= bottom
\* and right >= left, whatever the order of the points.
C5_BoxIsRoundedExtent ==
    [][ last'.applied =>
          \E box \in { Box(state') } :
              \A pts \in PointSets, loopClosed \in BOOLEAN :
                  (Len(pts) >= 3 /\ CallbackWith(pts, loopClosed))
                      => /\ box = RoundedExtent[pts]
                         /\ box.top >= box.bottom
                         /\ box.right >= box.left ]_vars

\* C5 happens: the box of the points P1, P2, P3, whose extent has more than
\* 6 decimals, has just been written.
C5_Witness ==
    /\ Callback /\ last.applied
    /\ state.top = "48.850000" /\ state.bottom = "-0.000000"
    /\ state.left = "-2.350000" /\ state.right = "2.350001"

\* C6: a drawing update that carries fewer than 3 points, or that runs while
\* the loop is not closed, changes nothing: no box, the fields, the product
\* selection and drawingMode stay, and the drawing session is not ended.
C6_NotReadyIsNoOp ==
    [][ \A pts \in PointSets, loopClosed \in BOOLEAN :
          ((Len(pts) < 3 \/ ~loopClosed) /\ CallbackWith(pts, loopClosed))
              => /\ state' = state
                 /\ inDrawMode' = inDrawMode
                 /\ ~last'.applied /\ ~last'.ended
                 /\ UNCHANGED <<requests, catalog, origin>> ]_vars

\* C6 happens: a point was moved in an open session whose loop is not closed,
\* and the session, drawingMode and an earlier box are still there.
C6_Witness ==
    /\ last.op = "onPointMoved" /\ ~last.applied /\ ~last.ended
    /\ ~closeLoop /\ inDrawMode /\ state.drawingMode
    /\ state.top = "20.000000"

\* C7: a point-changed callback whose reduction yields a box (loop closed,
\* at least 3 points, one of them with a position) applies the box, calls
\* endDrawing in the same callback and leaves drawingMode false; a callback
\* that applies no box does not end the drawing.
C7_EndsDrawingIffBoxApplied ==
    [][ \A pts \in PointSets, loopClosed \in BOOLEAN :
          CallbackWith(pts, loopClosed) =>
              IF loopClosed /\ Len(pts) >= 3 /\ Positioned(pts) # {}
              THEN /\ last'.applied /\ last'.ended
                   /\ \A f \in FieldNames : origin'[f] = "box"
                   /\ ~inDrawMode' /\ ~state'.drawingMode
              ELSE /\ ~last'.applied /\ ~last'.ended
                   /\ inDrawMode' = inDrawMode
                   /\ state'.drawingMode = state.drawingMode ]_vars

\* C7 happens: a click closed the loop, the box was applied and the session
\* entered by activateDrawing was ended.
C7_Witness ==
    /\ last.op = "onPointClicked" /\ last.applied /\ last.ended
    /\ ~inDrawMode /\ ~state.drawingMode
    /\ state.top = "20.000000" /\ state.right = "20.000000"

\* C8: a drawn box overwrites the four coordinate fields in one update: in no
\* reachable state, hence at no query trigger, does one field hold the value
\* of the latest box while another still holds its value from before it.
C8_BoxWriteIsAtomic ==
    \A f, g \in FieldNames : ~(origin[f] = "box" /\ origin[g] = "stale")

\* C8 happens: a query was issued from the four fields of a drawn box.
C8_Witness ==
    /\ Issued
    /\ \A f \in FieldNames : origin[f] = "box"
    /\ state.top = "48.850000" /\ state.right = "2.350001"

\* C9: when an issued query ends in a transport failure or in a non-success
\* response, no layer record is handed to the catalog for it, the failure is
\* logged, and no further request is issued.
C9_FailureLoadsNothing ==
    [][ \A i \in 1..Len(requests) :
          (\/ FetchRejected(i)
           \/ ~requests[i].response.ok /\ JsonSettled(i))
              => /\ catalog' = catalog
                 /\ last'.logged
                 /\ Len(requests') = Len(requests) ]_vars

\* C10: queries are neither sequenced nor cancelled.  A query issued while
\* others are outstanding leaves them as they are and is in flight beside
\* them; a completion with a successful response and a parsed document adds
\* one record for its own request at the end of the catalog, whatever the
\* order of issue, and touches no other request.
C10_QueriesOverlap ==
    [][ /\ (QueryGeoServer /\ last'.url # "")
            => /\ Len(requests') = Len(requests) + 1
               /\ requests'[Len(requests')].phase = "fetch"
               /\ \A i \in 1..Len(requests) : requests'[i] = requests[i]
        /\ \A i \in 1..Len(requests) :
              (/\ requests[i].response.ok
               /\ requests[i].response.body = FeatureCollectionText
               /\ JsonSettled(i))
                  => /\ loadOrder' = Append(loadOrder, i)
                     /\ Len(catalog') = Len(catalog) + 1
                     /\ SubSeq(catalog', 1, Len(catalog)) = catalog
                     /\ \A j \in 1..Len(requests) : j # i => requests'[j] = requests[j]
      ]_vars

\* C10 happens: the record of the second query was loaded first and the
\* record of the first query after it.
C10_Witness ==
    /\ loadOrder = <<2, 1>>
    /\ Len(catalog) = 2
    /\ last.op = "jsonSettled" /\ last.loaded = 1

\* The documents that the JSON bodies of the responses denote.
ParsedDocuments ==
    (FeatureCollectionText :> [type |-> "FeatureCollection", features |-> <<>>])
        @@ (ErrorJsonText :> [error |-> "internal"])

\* C11: every response whose body parses as JSON hands exactly one record to
\* the catalog: name "Filtered Data", type "geojson", enabled, and as its data
\* the parsed document itself; the record is the same whatever the fields,
\* the selection and drawingMode hold when the response completes.
C11_ParsedResponseLoadsOneRecord ==
    [][ \A i \in 1..Len(requests) :
          (/\ requests[i].response.body \in DOMAIN ParsedDocuments
           /\ JsonSettled(i))
              => /\ Len(catalog') = Len(catalog) + 1
                 /\ SubSeq(catalog', 1, Len(catalog)) = catalog
                 /\ catalog'[Len(catalog')] =
                        [name |-> "Filtered Data", type |-> "geojson",
                         data |-> ParsedDocuments[requests[i].response.body],
                         isEnabled |-> TRUE] ]_vars

\* C11 happens: the empty feature collection of a response was loaded as a
\* record after the fields the query was built from had been blanked.
C11_Witness ==
    /\ last.op = "jsonSettled" /\ last.loaded # 0
    /\ SomeFieldEmpty(state)
    /\ catalog[Len(catalog)] =
          [name |-> "Filtered Data", type |-> "geojson",
           data |-> [type |-> "FeatureCollection", features |-> <<>>],
           isEnabled |-> TRUE]

\* C12: every failure of a query leaves the four coordinate fields, the
\* selection and drawingMode as they were: the alert for an incomplete area,
\* the alert for an empty selection, a fetch that rejects, a body that does
\* not parse, and a response that is not a success.
C12_FailureKeepsState ==
    [][ /\ (last'.alert # "" /\ QueryGeoServer) => state' = state
        /\ \A i \in 1..Len(requests) :
              (\/ FetchRejected(i)
               \/ /\ last'.logged \/ ~requests[i].response.ok
                  /\ JsonSettled(i))
                  => state' = state ]_vars

\* C12 happens: a query was refused for its empty selection while the four
\* fields the user typed are still in the store.
C12_Witness ==
    /\ last.op = "queryGeoServer" /\ last.alert = ProductAlert
    /\ state.top = "48.9" /\ state.bottom = "48.8"
    /\ state.left = "2.33" /\ state.right = "2.35"
    /\ \A id \in ProductNames : ~Flag(state.selectedProducts, id)

\* The request URL as a function of the four field texts and of the set of
\* selected ids, and of nothing else.
UrlOfSnapshot(top, bottom, left, right, selected) ==
    LET Entry(id) == IF id \in selected THEN << id \o ":datapoints" >> ELSE << >>
        ring == << left \o " " \o bottom, right \o " " \o bottom,
                   right \o " " \o top, left \o " " \o top,
                   left \o " " \o bottom >>
    IN  "http://your-geoserver-url/geoserver/wfs"
            \o "?service=WFS&version=1.1.0&request=GetFeature&typeName="
            \o Join(Entry("tmc1") \o Entry("tmc2") \o Entry("ohrc"), ",")
            \o "&cql_filter="
            \o EncodeURIComponent("INTERSECTS(geom, POLYGON((" \o Join(ring, ", ") \o ")))")
            \o "&outputFormat=application/json"

\* C13: the URL of an issued query is determined by the four field texts and
\* the set of selected ids: whatever edits, toggles, drawing updates and
\* earlier queries led to the state, the URL is the same function of them,
\* and a trigger that follows an issued query in an unchanged store issues
\* the same URL again.
C13_UrlDeterminedBySnapshot ==
    [][ (last'.url # "" /\ QueryGeoServer)
            => /\ last'.url =
                    UrlOfSnapshot(state.top, state.bottom, state.left, state.right,
                        { id \in ProductNames : Flag(state.selectedProducts, id) })
               /\ Issued => last'.url = last.url ]_vars

\* C13 happens: a second query was issued, in the middle of a drawing session,
\* from fields of which a box wrote three and the user retyped one.
C13_Witness ==
    /\ Issued /\ Len(requests) = 2
    /\ state.drawingMode
    /\ origin = [top |-> "user", bottom |-> "box", left |-> "box", right |-> "box"]
    /\ state.top = "48.9"
    /\ \A id \in ProductNames : Flag(state.selectedProducts, id)
    /\ last.url = UrlOfSnapshot("48.9", "10.000000", "10.000000", "20.000000",
                                 ProductNames)

\* C14: in every reachable state where the four coordinate fields are all
\* set, after any manual edits and box applications, top is not below bottom
\* and right is not left of left.
C14_BoxIsOrdered ==
    ~SomeFieldEmpty(state)
        => /\ TextValue(state.top) >= TextValue(state.bottom)
           /\ TextValue(state.right) >= TextValue(state.left)

\* C15: a field edit puts the raw text in the named field and leaves the
\* other three fields, the selection and drawingMode as they were; a product
\* toggle puts the flag of the named id and leaves the flag of every other
\* id, the four fields and drawingMode as they were.
C15_ManualWritesHitOnlyTheirTarget ==
    [][ /\ \A e \in FieldEdits :
              (last'.op = "handleInputChange" /\ HandleInputChange(e[1], e[2]))
                  => /\ state'[e[1]] = e[2]
                     /\ \A k \in DOMAIN state \ {e[1]} : state'[k] = state[k]
        /\ \A name \in ProductNames, checked \in BOOLEAN :
              (last'.op = "handleProductChange" /\ HandleProductChange(name, checked))
                  => /\ Flag(state'.selectedProducts, name) = checked
                     /\ \A id \in ProductNames \ {name} :
                           Flag(state'.selectedProducts, id)
                               = Flag(state.selectedProducts, id)
                     /\ \A f \in FieldNames : state'[f] = state[f]
                     /\ state'.drawingMode = state.drawingMode ]_vars

\* C15 happens: tmc2 was toggled off during a drawing session, over the
\* fields of an earlier box of which the user retyped the top; the other two
\* products are still selected.
C15_Witness ==
    /\ last.op = "handleProductChange"
    /\ ~Flag(state.selectedProducts, "tmc2")
    /\ Flag(state.selectedProducts, "tmc1") /\ Flag(state.selectedProducts, "ohrc")
    /\ state.drawingMode
    /\ state.top = "48.9" /\ state.bottom = "10.000000"
    /\ state.left = "10.000000" /\ state.right = "20.000000"

\* C16: the validation looks at presence only.  Whenever queryGeoServer runs
\* with the four fields non-empty and a product selected, it raises no alert
\* and issues exactly one request, also when a value lies outside the degree
\* range or top is below bottom or right is left of left; the four texts are
\* in the polygon of the request as they are in the fields.
C16_PresenceIsTheOnlyCheck ==
    [][ (/\ last'.op = "queryGeoServer"
         /\ ~SomeFieldEmpty(state)
         /\ \E id \in ProductNames : Flag(state.selectedProducts, id)
         /\ QueryGeoServer)
            => /\ last'.alert = ""
               /\ Len(requests') = Len(requests) + 1
               /\ SubSeq(requests', 1, Len(requests)) = requests
               /\ UrlParam(last'.url, "cql_filter") =
                     EncodeURIComponent("INTERSECTS(geom, POLYGON(("
                                            \o ExpectedRing(state) \o ")))") ]_vars

\* C16 happens: a query was issued with top = -91, under the bottom and
\* outside the latitudes, and right = -181, left of the left and outside the
\* longitudes; its polygon has the vertex "-181 -91".
C16_Witness ==
    /\ Issued
    /\ state.top = "-91" /\ state.bottom = "48.8"
    /\ state.left = "2.33" /\ state.right = "-181"
    /\ TextValue(state.top) < TextValue(state.bottom)
    /\ TextValue(state.right) < TextValue(state.left)
    /\ TextValue(state.top) < -900000000
    /\ Cardinality(Occurrences(last.url, "-181%20-91")) > 0

\* The steps that write the store between a trigger and its completion.
StoreWrites ==
    {"handleInputChange", "handleProductChange", "activateDrawing", "onPointClicked"}

\* C17: an issued query is the query of the store as it is when the trigger
\* fires, and the trigger leaves the store alone; a field edit, a product
\* toggle or a drawing update while requests are in flight changes no
\* request and loads nothing; the record a completion loads is the record of
\* the response whatever the store holds by then; and no completion step
\* changes a field, a flag or drawingMode.
C17_QueryIsOfTheSnapshot ==
    [][ /\ (last'.url # "" /\ QueryGeoServer)
            => /\ state' = state
               /\ last'.url =
                    UrlOfSnapshot(state.top, state.bottom, state.left, state.right,
                        { id \in ProductNames : Flag(state.selectedProducts, id) })
        /\ last'.op \in StoreWrites
            => /\ requests' = requests
               /\ catalog' = catalog
               /\ loadOrder' = loadOrder
        /\ \A i \in 1..Len(requests) :
              /\ (\E response \in Responses : FetchFulfilled(i, response))
                    => state' = state
              /\ JsonSettled(i)
                    => /\ state' = state
                       /\ requests[i].response.body \in DOMAIN ParsedDocuments
                            => catalog' = Append(catalog,
                                  [name |-> "Filtered Data", type |-> "geojson",
                                   data |-> ParsedDocuments[requests[i].response.body],
                                   isEnabled |-> TRUE]) ]_vars

\* C17 happens: the only query issued was answered and loaded after the top
\* field had been blanked and every product deselected, neither of which a
\* trigger accepts, over the other three fields of a drawn box.
C17_Witness ==
    /\ Len(requests) = 1 /\ loadOrder = << 1 >>
    /\ last.op = "jsonSettled" /\ last.loaded = 1
    /\ state.top = "" /\ state.bottom = "10.000000"
    /\ origin.bottom = "box"
    /\ \A id \in ProductNames : ~Flag(state.selectedProducts, id)

\* C18: in every reachable state drawingMode is true exactly when the drawing
\* collaborator has been put in draw mode and its session has not ended since,
\* and right after deactivate the session is ended.
C18_DrawingModeTracksSession ==
    /\ state.drawingMode <=> inDrawMode
    /\ last.op = "deactivate" => ~inDrawMode

\* The keys of the selection map.
Keys(products) == { products[i].id : i \in 1..Len(products) }

\* C19: the selection map starts as tmc1, tmc2, ohrc, all selected, and only
\* grows: every step keeps every key, each key once and with a boolean flag,
\* so an id toggled off is still a key, with the flag false.
C19_SelectionOnlyGrows ==
    /\ Keys(state.selectedProducts) = {"tmc1", "tmc2", "ohrc"}
    /\ \A id \in {"tmc1", "tmc2", "ohrc"} : Flag(state.selectedProducts, id)
    /\ [][ /\ Keys(state.selectedProducts) \subseteq Keys(state'.selectedProducts)
           /\ Len(state'.selectedProducts) = Cardinality(Keys(state'.selectedProducts))
           /\ \A i \in 1..Len(state'.selectedProducts) :
                 state'.selectedProducts[i].selected \in BOOLEAN
           /\ \A name \in ProductNames :
                 (last'.op = "handleProductChange" /\ HandleProductChange(name, FALSE))
                     => \E i \in 1..Len(state'.selectedProducts) :
                           /\ state'.selectedProducts[i].id = name
                           /\ state'.selectedProducts[i].selected = FALSE ]_vars

\* C19 happens: tmc2 was toggled off and is still a key, with the flag false,
\* between tmc1 and ohrc.
C19_Witness ==
    /\ last.op = "handleProductChange"
    /\ Len(state.selectedProducts) = 3
    /\ state.selectedProducts[2] = [id |-> "tmc2", selected |-> FALSE]
    /\ Keys(state.selectedProducts) = {"tmc1", "tmc2", "ohrc"}

====
